---- MODULE Spec2Model ----
(***************************************************************************)
(* Model of the WireGuard configuration service                            *)
(* (backend/modules/wireguard/service.go).                                 *)
(*                                                                         *)
(* The service owns one in-memory document (config), one backing file      *)
(* (disk) and one sync.RWMutex (mu).  Every handler takes the lock on      *)
(* entry and releases it by a deferred unlock when it returns.             *)
(*                                                                         *)
(* Strings the code takes apart (server addresses, allowed-IPs) are        *)
(* sequences of one-character strings, so strings.Split, fmt.Sscanf("%d")  *)
(* and fmt.Sprintf("%d") are computed character by character.  Strings the *)
(* code only copies or compares (keys, tags, DNS lists, names) are opaque. *)
(***************************************************************************)
EXTENDS Integers, Sequences, FiniteSets, TLC

VARIABLES
    config,   \* s.config: the in-memory document, [Servers |-> <<...>>]
    disk,     \* the file at s.configPath
    loadErr,  \* whether loadConfig returned an error to NewService
    mu,       \* s.mu: [w |-> the writer holding it or NoProc, r |-> readers]
    pc,       \* per caller: position inside the handler it is running
    op,       \* per caller: the handler and the arguments it was called with
    res,      \* per caller: what the handler returns
    stops,    \* per caller: StopInterface invocations made by the running call
    nextID,   \* number of identifiers uuid.New() has handed out so far
    faults,   \* number of writes of the backing file that may still fail
    replay,   \* the set of server IDs obtained by replaying create/delete
    spare,    \* cap(s.config.Servers) - len(s.config.Servers)
    shared    \* callers holding a value that points into the backing array
              \* of s.config.Servers

vars == <<config, disk, loadErr, mu, pc, op, res, stops, nextID, faults, replay,
          spare, shared>>

-----------------------------------------------------------------------------
(* Bounds of the model.                                                    *)

MaxServers == 2
MaxClients == 2
MaxIDs == 3
MaxFaults == 1

Procs == {"p1", "p2"}
NoProc == "none"
Times == {1}

-----------------------------------------------------------------------------
(* Program constants.                                                      *)

FirstHost == 2
LastHost == 254
DefaultMTU == 1420
DefaultDNS == "1.1.1.1,8.8.8.8"

-----------------------------------------------------------------------------
(* Strings as character sequences.                                         *)

Digits == <<"0", "1", "2", "3", "4", "5", "6", "7", "8", "9">>

IsDigit(c) == \E d \in 1..10 : Digits[d] = c

DigitVal(c) == (CHOOSE d \in 1..10 : Digits[d] = c) - 1

\* strings.Split(s, sep) for a one-character separator: always at least
\* one element, the empty string included.
Split(s, sep) ==
    LET RECURSIVE F(_, _, _)
        F(i, cur, acc) ==
            IF i > Len(s) THEN Append(acc, cur)
            ELSE IF s[i] = sep THEN F(i + 1, <<>>, Append(acc, cur))
            ELSE F(i + 1, Append(cur, s[i]), acc)
    IN F(1, <<>>, <<>>)

\* fmt.Sprintf("%d", n) for n >= 0.
FormatInt(n) ==
    LET RECURSIVE F(_)
        F(k) == IF k < 10 THEN <<Digits[k + 1]>>
                ELSE Append(F(k \div 10), Digits[(k % 10) + 1])
    IN F(n)

\* fmt.Sscanf(s, "%d", &n): leading spaces are skipped, one sign is
\* accepted, then the longest run of digits is read; what follows the
\* digits is left unread and is no error.  No digit at all is an error.
parseInt(s) ==
    LET RECURSIVE Skip(_)
        Skip(i) == IF i <= Len(s) /\ s[i] = " " THEN Skip(i + 1) ELSE i
        start == Skip(1)
        signed == start <= Len(s) /\ s[start] \in {"+", "-"}
        first == IF signed THEN start + 1 ELSE start
        RECURSIVE Scan(_, _)
        Scan(i, acc) == IF i <= Len(s) /\ IsDigit(s[i])
                        THEN Scan(i + 1, acc * 10 + DigitVal(s[i]))
                        ELSE <<i, acc>>
        got == Scan(first, 0)
    IN IF got[1] = first
       THEN [n |-> 0, err |-> TRUE]
       ELSE [n |-> IF signed /\ s[start] = "-" THEN 0 - got[2] ELSE got[2],
             err |-> FALSE]

-----------------------------------------------------------------------------
(* The strings callers put into drafts.                                    *)

EmptyStr == <<>>
Addr_10_0_0_1_24 == <<"1", "0", ".", "0", ".", "0", ".", "1", "/", "2", "4">>
Addr_10_0_0_2_24 == <<"1", "0", ".", "0", ".", "0", ".", "2", "/", "2", "4">>
Addr_10_0_0_3_32 == <<"1", "0", ".", "0", ".", "0", ".", "3", "/", "3", "2">>
Addr_10_0_0_2_32 == <<"1", "0", ".", "0", ".", "0", ".", "2", "/", "3", "2">>

NoKey == <<"", 0>>

\* A WireGuardServer with the fields this file reads or writes.
ZeroServer ==
    [ID |-> 0, PrivateKey |-> NoKey, PublicKey |-> NoKey,
     Address |-> EmptyStr, Tag |-> "", Enabled |-> FALSE, MTU |-> 0,
     DNS |-> "", CreatedAt |-> 0, UpdatedAt |-> 0, Clients |-> <<>>]

\* A WireGuardClient with the fields this file reads or writes.
ZeroClient ==
    [ID |-> 0, PrivateKey |-> NoKey, PublicKey |-> NoKey,
     PresharedKey |-> NoKey, Name |-> "", Description |-> "",
     AllowedIPs |-> EmptyStr, DNS |-> "", Enabled |-> FALSE,
     CreatedAt |-> 0]

\* What a caller may pass as the draft of CreateServer: a gateway on
\* host 1 that leaves MTU and DNS unset, and a disabled server sitting on
\* host 2 that sets both.
ServerDrafts ==
    { [ZeroServer EXCEPT !.Address = Addr_10_0_0_1_24, !.Tag = "wg0",
                         !.Enabled = TRUE],
      [ZeroServer EXCEPT !.Address = Addr_10_0_0_2_24, !.Tag = "wg1",
                         !.MTU = 1400, !.DNS = "9.9.9.9"] }

\* The keys a caller's UpdateServer draft carries: the service never
\* stored them.  The draft's creation stamp is the zero time and its
\* client list is empty.
DraftPrivateKey == <<"priv", 0>>
DraftPublicKey == <<"pub", 0>>

IDs == 1..MaxIDs

\* What a caller may pass as the draft of UpdateServer, for every ID: the
\* server on host 2, and a draft that sets the tag and the enabled flag
\* and leaves address, MTU and DNS unset.
UpdateDrafts ==
    { [d EXCEPT !.ID = id, !.PrivateKey = DraftPrivateKey,
                !.PublicKey = DraftPublicKey] :
      d \in { [ZeroServer EXCEPT !.Address = Addr_10_0_0_2_24, !.Tag = "wg1",
                                 !.MTU = 1400, !.DNS = "9.9.9.9"],
              [ZeroServer EXCEPT !.Tag = "wg0", !.Enabled = TRUE] },
      id \in IDs }

\* What a caller may pass as the draft of AddClient.
ClientDrafts ==
    { [ZeroClient EXCEPT !.Name = "laptop"],
      [ZeroClient EXCEPT !.Name = "phone", !.Description = "mobile",
                         !.AllowedIPs = Addr_10_0_0_3_32, !.DNS = "9.9.9.9"] }

\* What a caller may pass to UpdateClient as (name, description, enabled).
ClientUpdates ==
    { [Name |-> "", Description |-> "work", Enabled |-> FALSE],
      [Name |-> "tablet", Description |-> "", Enabled |-> TRUE] }

NoUpdate == [Name |-> "", Description |-> "", Enabled |-> FALSE]


-----------------------------------------------------------------------------
(* The document.                                                           *)

ServerIDs(cfg) == {cfg.Servers[i].ID : i \in 1..Len(cfg.Servers)}

ClientIDs(server) == {server.Clients[j].ID : j \in 1..Len(server.Clients)}

\* A lookup that answers with the first slot whenever the ID is listed.
FindServer_First(cfg, id) ==
    IF \E i \in 1..Len(cfg.Servers) : cfg.Servers[i].ID = id THEN 1 ELSE 0

\* for i := range s.config.Servers { if s.config.Servers[i].ID == id ...:
\* the first index holding the ID, 0 when the loop falls through.
FindServer(cfg, id) ==
    IF \E i \in 1..Len(cfg.Servers) : cfg.Servers[i].ID = id
    THEN CHOOSE i \in 1..Len(cfg.Servers) :
             /\ cfg.Servers[i].ID = id
             /\ \A k \in 1..(i - 1) : cfg.Servers[k].ID # id
    ELSE 0

\* The client lookup without the test of the server ID.
FindClient_AnyServer(cfg, sid, cid) ==
    LET hits == UNION {{<<i, j>> : j \in {k \in 1..Len(cfg.Servers[i].Clients) :
                                        cfg.Servers[i].Clients[k].ID = cid}} :
                       i \in 1..Len(cfg.Servers)}
    IN IF hits = {} THEN <<0, 0>>
       ELSE CHOOSE h \in hits :
                \A g \in hits : h[1] < g[1] \/ (h[1] = g[1] /\ h[2] <= g[2])

\* The nested loops of DeleteClient and UpdateClient: every server with
\* the ID is searched in order for the first client with the ID;
\* <<0, 0>> when both loops fall through.
FindClient(cfg, sid, cid) ==
    LET hits == UNION {{<<i, j>> : j \in {k \in 1..Len(cfg.Servers[i].Clients) :
                                        /\ cfg.Servers[i].ID = sid
                                        /\ cfg.Servers[i].Clients[k].ID = cid}} :
                       i \in 1..Len(cfg.Servers)}
    IN IF hits = {} THEN <<0, 0>>
       ELSE CHOOSE h \in hits :
                \A g \in hits : h[1] < g[1] \/ (h[1] = g[1] /\ h[2] <= g[2])

\* The slice header GetServers returns: the length; the array it points to
\* is the document's own (the caller joins shared).
SliceOf(servers) == [len |-> Len(servers)]

\* &s.config.Servers[i]: a pointer to slot i of the document's array.
PointerTo(i) == [slot |-> i]

\* The capacity append gives a slice of n elements that has no room left:
\* the runtime doubles a small slice, and a slice of none gets one slot.
GrowCap(n) == IF n = 0 THEN n + 1 ELSE n + n

\* cap - len after append(s, x) on a slice of n elements with the given
\* room: with no room a new array is allocated.
SpareAfterAppend(n, room) ==
    IF room = 0 THEN GrowCap(n) - (n + 1) ELSE room - 1

\* The capacity of a slice grown by append from the given capacity until
\* it takes n elements.
RECURSIVE AppendCap(_, _)
AppendCap(cap, n) == IF cap >= n THEN cap ELSE AppendCap(GrowCap(cap), n)

\* The same for the growth rule of the older JSON decoder: to four slots,
\* then by half.
RECURSIVE DecoderCap(_, _)
DecoderCap(cap, n) ==
    IF cap >= n THEN cap
    ELSE DecoderCap(IF cap + (cap \div 2) < 4 THEN 4 ELSE cap + (cap \div 2), n)

\* cap - len of the slice json.Unmarshal decodes n servers into: the
\* release of the library decides between the two growth rules.
DecodedSpares(n) == {AppendCap(0, n) - n, DecoderCap(0, n) - n}

\* A splice that drops the last element of the slice instead of element i.
RemoveAt_Last(s, i) == SubSeq(s, 1, Len(s) - 1)

\* A splice that drops the head of the slice instead of element i.
RemoveAt_Head(s, i) == Tail(s)

\* append(s[:i], s[i+1:]...)
RemoveAt(s, i) == SubSeq(s, 1, i - 1) \o SubSeq(s, i + 1, Len(s))

-----------------------------------------------------------------------------
(* allocateClientIP.                                                       *)

Join3(a, b, c) == a \o <<".">> \o b \o <<".">> \o c

\* fmt.Sprintf("%s.%d/32", prefix, i)
FormatHost(prefix, i) == prefix \o <<".">> \o FormatInt(i) \o <<"/", "3", "2">>

\* The host octet the code reads out of a CIDR string: the set is empty
\* when the part before "/" has not four dot-separated parts or the
\* fourth does not scan as an integer.
HostOctet(cidr) ==
    LET ipParts == Split(Split(cidr, "/")[1], ".")
    IN IF Len(ipParts) = 4 /\ ~parseInt(ipParts[4]).err
       THEN {parseInt(ipParts[4]).n}
       ELSE {}

\* usedIPs without the block that enters the server's own octet.
UsedIPs_ClientsOnly(server) ==
    UNION {HostOctet(server.Clients[j].AllowedIPs) :
              j \in 1..Len(server.Clients)}

\* usedIPs: the server's own host octet and every client's.
UsedIPs(server) ==
    HostOctet(server.Address) \cup
    UNION {HostOctet(server.Clients[j].AllowedIPs) :
              j \in 1..Len(server.Clients)}

\* allocateClientIP that numbers the clients by their count.
allocateClientIP_ByCount(server) ==
    LET baseIP == Split(server.Address, "/")[1]
        parts == Split(baseIP, ".")
        prefix == Join3(parts[1], parts[2], parts[3])
    IN IF Len(parts) # 4 THEN Addr_10_0_0_2_32
       ELSE FormatHost(prefix, Len(server.Clients) + 2)

\* allocateClientIP that hands out the last octet of the scan when none
\* is unused.
allocateClientIP_LastHost(server) ==
    LET baseIP == Split(server.Address, "/")[1]
        parts == Split(baseIP, ".")
        prefix == Join3(parts[1], parts[2], parts[3])
        free == (FirstHost..LastHost) \ UsedIPs(server)
    IN IF Len(parts) # 4 THEN Addr_10_0_0_2_32
       ELSE IF free = {} THEN FormatHost(prefix, LastHost)
       ELSE FormatHost(prefix, CHOOSE i \in free : \A k \in free : i <= k)

allocateClientIP(server) ==
    LET baseIP == Split(server.Address, "/")[1]
        parts == Split(baseIP, ".")
        prefix == Join3(parts[1], parts[2], parts[3])
        usedIPs == UsedIPs(server)
        \* for i := 2; i <= 254; i++ { if !usedIPs[i] { return ... } }: the
        \* loop returns at the first i it finds unused.
        unused == {i \in FirstHost..LastHost : i \notin usedIPs}
    IN IF Len(parts) # 4 THEN Addr_10_0_0_2_32
       ELSE IF unused # {}
       THEN FormatHost(prefix, CHOOSE i \in unused : \A k \in unused : i <= k)
       ELSE FormatHost(prefix, Len(server.Clients) + 2)

-----------------------------------------------------------------------------
(* The backing file.                                                       *)

Absent == [kind |-> "absent", servers |-> <<>>]
Corrupt == [kind |-> "corrupt", servers |-> <<>>]

\* The JSON text of a value: strings as strings, numbers as their decimal
\* digits, booleans as the literals true and false, time stamps as the
\* text of the instant, slices as arrays, structs as objects.
JSONString(x) == [t |-> "string", v |-> x]

JSONNumber(n) == [t |-> "number", v |-> FormatInt(n)]

JSONBool(b) == [t |-> "literal", v |-> IF b THEN "true" ELSE "false"]

JSONTime(t) == [t |-> "string", v |-> FormatInt(t)]

JSONArray(items) == [t |-> "array", v |-> items]

\* The number a run of decimal digits denotes.
ParseDigits(s) ==
    LET RECURSIVE F(_)
        F(n) == IF n = 0 THEN 0 ELSE F(n - 1) * 10 + DigitVal(s[n])
    IN F(Len(s))

EncodeClient(c) ==
    [t |-> "object",
     v |-> [ID |-> JSONString(c.ID),
            PrivateKey |-> JSONString(c.PrivateKey),
            PublicKey |-> JSONString(c.PublicKey),
            PresharedKey |-> JSONString(c.PresharedKey),
            Name |-> JSONString(c.Name),
            Description |-> JSONString(c.Description),
            AllowedIPs |-> JSONString(c.AllowedIPs),
            DNS |-> JSONString(c.DNS),
            Enabled |-> JSONBool(c.Enabled),
            CreatedAt |-> JSONTime(c.CreatedAt)]]

DecodeClient(j) ==
    [ID |-> j.v.ID.v,
     PrivateKey |-> j.v.PrivateKey.v,
     PublicKey |-> j.v.PublicKey.v,
     PresharedKey |-> j.v.PresharedKey.v,
     Name |-> j.v.Name.v,
     Description |-> j.v.Description.v,
     AllowedIPs |-> j.v.AllowedIPs.v,
     DNS |-> j.v.DNS.v,
     Enabled |-> j.v.Enabled.v = "true",
     CreatedAt |-> ParseDigits(j.v.CreatedAt.v)]

EncodeServer(sv) ==
    [t |-> "object",
     v |-> [ID |-> JSONString(sv.ID),
            PrivateKey |-> JSONString(sv.PrivateKey),
            PublicKey |-> JSONString(sv.PublicKey),
            Address |-> JSONString(sv.Address),
            Tag |-> JSONString(sv.Tag),
            Enabled |-> JSONBool(sv.Enabled),
            MTU |-> JSONNumber(sv.MTU),
            DNS |-> JSONString(sv.DNS),
            CreatedAt |-> JSONTime(sv.CreatedAt),
            UpdatedAt |-> JSONTime(sv.UpdatedAt),
            Clients |-> JSONArray([i \in 1..Len(sv.Clients) |->
                                      EncodeClient(sv.Clients[i])])]]

DecodeServer(j) ==
    [ID |-> j.v.ID.v,
     PrivateKey |-> j.v.PrivateKey.v,
     PublicKey |-> j.v.PublicKey.v,
     Address |-> j.v.Address.v,
     Tag |-> j.v.Tag.v,
     Enabled |-> j.v.Enabled.v = "true",
     MTU |-> ParseDigits(j.v.MTU.v),
     DNS |-> j.v.DNS.v,
     CreatedAt |-> ParseDigits(j.v.CreatedAt.v),
     UpdatedAt |-> ParseDigits(j.v.UpdatedAt.v),
     Clients |-> [i \in 1..Len(j.v.Clients.v) |->
                    DecodeClient(j.v.Clients.v[i])]]

\* json.MarshalIndent(s.config, "", "  "): the text of the whole document.
Marshal(cfg) ==
    [kind |-> "json",
     servers |-> JSONArray([i \in 1..Len(cfg.Servers) |->
                               EncodeServer(cfg.Servers[i])])]

\* json.Unmarshal(data, &s.config) on text that decodes.
Unmarshal(data) ==
    [Servers |-> [i \in 1..Len(data.servers.v) |->
                     DecodeServer(data.servers.v[i])]]

EmptyConfig == [Servers |-> <<>>]

\* loadConfig taking every file for a missing one.
loadConfig_IgnoresFile(file) == [cfg |-> EmptyConfig, err |-> FALSE]

\* loadConfig: a missing file is an empty document and no error; bytes
\* that do not decode leave s.config at its zero value and are an error.
loadConfig(file) ==
    IF file.kind = "absent" THEN [cfg |-> EmptyConfig, err |-> FALSE]
    ELSE IF file.kind = "corrupt" THEN [cfg |-> EmptyConfig, err |-> TRUE]
    ELSE [cfg |-> Unmarshal(file), err |-> FALSE]

\* How os.WriteFile can end: the file holds the new bytes; the file could
\* not be opened and is as before; the file was truncated and the write
\* failed part-way.
SaveOutcomes == {"ok", "fail", "torn"}

\* The outcomes a write can have while failures are left to inject.
Outcomes == IF faults > 0 THEN SaveOutcomes ELSE {"ok"}

Faults(outcome) == IF outcome = "ok" THEN faults ELSE faults - 1

\* saveConfig dropping the error of os.WriteFile.
saveConfig_ErrorDropped(cfg, file, outcome) ==
    [disk |-> IF outcome = "ok" THEN Marshal(cfg)
              ELSE IF outcome = "torn" THEN Corrupt
              ELSE file,
     err |-> "nil"]

\* saveConfig: the file after the call and the error returned.
saveConfig(cfg, file, outcome) ==
    [disk |-> IF outcome = "ok" THEN Marshal(cfg)
              ELSE IF outcome = "torn" THEN Corrupt
              ELSE file,
     err |-> IF outcome = "ok" THEN "nil" ELSE "PersistenceFailure"]

-----------------------------------------------------------------------------
(* Callers, the lock and what a call returns.                              *)

\* A call: the handler, the IDs it is given, the server and the client its
\* pointer arguments point to (the handlers write through them), the client
\* draft as the caller passed it, and the arguments of UpdateClient.
NoOp == [name |-> "none", sid |-> 0, cid |-> 0, server |-> ZeroServer,
         client |-> ZeroClient, given |-> ZeroClient, upd |-> NoUpdate]

Request(name, sid, cid) == [NoOp EXCEPT !.name = name, !.sid = sid, !.cid = cid]

NoRes == [err |-> "none", val |-> "nil"]

Result(err, val) == [err |-> err, val |-> val]

\* A lock that never blocks.
CanLock_NeverBlocks == TRUE

\* s.mu.Lock() returns: no writer and no reader is inside.
CanLock == mu.w = NoProc /\ mu.r = {}

\* A read lock that never blocks.
CanRLock_NeverBlocks == TRUE

\* s.mu.RLock() returns: no writer is inside.
CanRLock == mu.w = NoProc

Lock(p) == [mu EXCEPT !.w = p]

RLock(p) == [mu EXCEPT !.r = @ \cup {p}]

Unlock(p) == [w |-> IF mu.w = p THEN NoProc ELSE mu.w, r |-> mu.r \ {p}]

\* The interface-stop collaborator, as the call sees the service: the tag
\* it is handed and the servers the document lists while it runs.
StopInterface(cfg, tag) == [Tag |-> tag, Listed |-> ServerIDs(cfg)]

\* The stop call without the test of the enabled flag.
StopCalls_Unconditional(cfg, server) == <<StopInterface(cfg, server.Tag)>>

\* if s.config.Servers[i].Enabled { s.StopInterface(s.config.Servers[i].Tag) }
StopCalls(cfg, server) ==
    IF server.Enabled THEN <<StopInterface(cfg, server.Tag)>> ELSE <<>>

\* NewService on a given file: the state after construction, the error of
\* loadConfig dropped.
NewService(file, budget) ==
    /\ disk = file
    /\ config = loadConfig(file).cfg
    /\ loadErr = loadConfig(file).err
    /\ mu = [w |-> NoProc, r |-> {}]
    /\ pc = [p \in Procs |-> "idle"]
    /\ op = [p \in Procs |-> NoOp]
    /\ res = [p \in Procs |-> NoRes]
    /\ stops = [p \in Procs |-> <<>>]
    /\ nextID = 0
    /\ faults = budget
    /\ replay = {}
    /\ spare \in DecodedSpares(Len(loadConfig(file).cfg.Servers))
    /\ shared = {}

\* First run: no file yet; up to MaxFaults writes fail.
Init == NewService(Absent, MaxFaults)

\* First run on a store whose every write succeeds.
InitSaved == NewService(Absent, 0)

\* Start on a file that does not decode.
InitCorrupt == NewService(Corrupt, MaxFaults)

\* A handler that took the write lock and ran to its return statement.
Finish(p, o, r) ==
    /\ mu' = Lock(p)
    /\ pc' = [pc EXCEPT ![p] = "done"]
    /\ op' = [op EXCEPT ![p] = o]
    /\ res' = [res EXCEPT ![p] = r]

-----------------------------------------------------------------------------
(* The handlers.                                                           *)

\* A key generator fails and the handler appends its draft all the same.
GenerationFailed_Appended(p, o) ==
    /\ Finish(p, o, Result("GenerationFailure", "nil"))
    /\ config' = [config EXCEPT !.Servers = Append(@, o.server)]
    /\ UNCHANGED <<disk, loadErr, stops, nextID, faults, replay, spare, shared>>

\* GenerateKeyPair or GeneratePresharedKey returns an error: the handler
\* returns it at once.
GenerationFailed(p, o) ==
    /\ Finish(p, o, Result("GenerationFailure", "nil"))
    /\ UNCHANGED <<config, disk, loadErr, stops, nextID, faults, replay, spare,
                   shared>>

GetServers(p) ==
    /\ pc[p] = "idle"
    /\ CanRLock
    /\ mu' = RLock(p)
    /\ pc' = [pc EXCEPT ![p] = "done"]
    /\ op' = [op EXCEPT ![p] = Request("GetServers", 0, 0)]
    /\ res' = [res EXCEPT ![p] = Result("nil", SliceOf(config.Servers))]
    /\ shared' = shared \cup {p}
    /\ UNCHANGED <<config, disk, loadErr, stops, nextID, faults, replay, spare>>

GetServer(p) ==
    /\ pc[p] = "idle"
    /\ CanRLock
    /\ \E id \in IDs :
        LET i == FindServer(config, id)
        IN /\ mu' = RLock(p)
           /\ pc' = [pc EXCEPT ![p] = "done"]
           /\ op' = [op EXCEPT ![p] = Request("GetServer", id, 0)]
           /\ res' = [res EXCEPT ![p] =
                        IF i = 0 THEN Result("NotFound", "nil")
                        ELSE Result("nil", PointerTo(i))]
           /\ shared' = IF i = 0 THEN shared ELSE shared \cup {p}
    /\ UNCHANGED <<config, disk, loadErr, stops, nextID, faults, replay, spare>>

\* The server CreateServer appends: the draft with identity, keys, stamps,
\* an empty client list and the defaults filled in.
NewServer(draft, id, t1, t2) ==
    [draft EXCEPT !.ID = id,
                  !.PrivateKey = <<"priv", id>>,
                  !.PublicKey = <<"pub", id>>,
                  !.CreatedAt = t1,
                  !.UpdatedAt = t2,
                  !.Clients = <<>>,
                  !.MTU = IF @ = 0 THEN DefaultMTU ELSE @,
                  !.DNS = IF @ = "" THEN DefaultDNS ELSE @]

CreateServer(p) ==
    /\ pc[p] = "idle"
    /\ CanLock
    /\ Len(config.Servers) < MaxServers
    /\ nextID < MaxIDs
    /\ \E draft \in ServerDrafts :
        LET o == [Request("CreateServer", 0, 0) EXCEPT !.server = draft]
        IN \/ GenerationFailed(p, o)
           \/ \E t1 \in Times, t2 \in Times, outcome \in Outcomes :
              LET id == nextID + 1
                  server == NewServer(draft, id, t1, t2)
                  cfg == [config EXCEPT !.Servers = Append(@, server)]
                  saved == saveConfig(cfg, disk, outcome)
              IN /\ config' = cfg
                 /\ disk' = saved.disk
                 /\ faults' = Faults(outcome)
                 /\ nextID' = id
                 /\ replay' = replay \cup {id}
                 /\ spare' = SpareAfterAppend(Len(config.Servers), spare)
                 /\ shared' = IF spare = 0 THEN {} ELSE shared
                 /\ Finish(p, [o EXCEPT !.server = server],
                           Result(saved.err, "nil"))
                 /\ UNCHANGED <<loadErr, stops>>

DeleteServer(p) ==
    /\ pc[p] = "idle"
    /\ CanLock
    /\ \E id \in IDs :
        LET o == Request("DeleteServer", id, 0)
            i == FindServer(config, id)
        IN IF i = 0
           THEN /\ Finish(p, o, Result("NotFound", "nil"))
                /\ UNCHANGED <<config, disk, loadErr, stops, nextID, faults, replay, spare, shared>>
           ELSE \E outcome \in Outcomes :
                LET calls == StopCalls(config, config.Servers[i])
                    cfg == [config EXCEPT !.Servers = RemoveAt(@, i)]
                    saved == saveConfig(cfg, disk, outcome)
                IN /\ stops' = [stops EXCEPT ![p] = calls]
                   /\ config' = cfg
                   /\ disk' = saved.disk
                   /\ faults' = Faults(outcome)
                   /\ replay' = replay \ {id}
                   /\ spare' = spare + 1
                   /\ Finish(p, o, Result(saved.err, "nil"))
                   /\ UNCHANGED <<loadErr, nextID, shared>>

\* The client of an AddClient that runs the allocation whatever the draft
\* says.
NewClient_AlwaysAllocates(draft, server, id, t) ==
    [draft EXCEPT !.ID = id,
                  !.PrivateKey = <<"priv", id>>,
                  !.PublicKey = <<"pub", id>>,
                  !.PresharedKey = <<"psk", id>>,
                  !.Enabled = TRUE,
                  !.CreatedAt = t,
                  !.AllowedIPs = allocateClientIP(server),
                  !.DNS = IF @ = "" THEN server.DNS ELSE @]

\* The client AddClient appends: the draft with identity, keys, the enabled
\* flag, the stamp, an allocated address when the draft has none and the
\* server's DNS when the draft has none.
NewClient(draft, server, id, t) ==
    [draft EXCEPT !.ID = id,
                  !.PrivateKey = <<"priv", id>>,
                  !.PublicKey = <<"pub", id>>,
                  !.PresharedKey = <<"psk", id>>,
                  !.Enabled = TRUE,
                  !.CreatedAt = t,
                  !.AllowedIPs = IF @ = EmptyStr THEN allocateClientIP(server)
                                 ELSE @,
                  !.DNS = IF @ = "" THEN server.DNS ELSE @]

\* AddClient up to the append: the lock, the lookup, the generators and
\* the fields of the client.
AddClient(p) ==
    /\ pc[p] = "idle"
    /\ CanLock
    /\ \E sid \in IDs, draft \in ClientDrafts :
        LET o == [Request("AddClient", sid, 0) EXCEPT !.client = draft,
                                                       !.given = draft]
            i == FindServer(config, sid)
        IN IF i = 0
           THEN /\ Finish(p, o, Result("NotFound", "nil"))
                /\ UNCHANGED <<config, disk, loadErr, stops, nextID, faults,
                               replay, spare, shared>>
           ELSE \/ GenerationFailed(p, o)
                \/ \E t \in Times :
                   LET id == nextID + 1
                       client == NewClient(draft, config.Servers[i], id, t)
                   IN /\ mu' = Lock(p)
                      /\ pc' = [pc EXCEPT ![p] = "append"]
                      /\ op' = [op EXCEPT ![p] =
                                  [o EXCEPT !.cid = id, !.client = client]]
                      /\ res' = res
                      /\ nextID' = id
                      /\ UNCHANGED <<config, disk, loadErr, stops, faults,
                                     replay, spare, shared>>

\* AddClient from the append on: server.Clients = append(...), saveConfig.
\* The lock keeps the server where the lookup found it.
AddClientAppend(p) ==
    /\ pc[p] = "append"
    /\ \E outcome \in Outcomes :
        LET i == FindServer(config, op[p].sid)
            cfg == IF i = 0 THEN config
                   ELSE [config EXCEPT !.Servers[i].Clients =
                                           Append(@, op[p].client)]
            saved == saveConfig(cfg, disk, outcome)
        IN /\ config' = cfg
           /\ disk' = saved.disk
           /\ faults' = Faults(outcome)
           /\ pc' = [pc EXCEPT ![p] = "done"]
           /\ res' = [res EXCEPT ![p] = Result(saved.err, "nil")]
    /\ UNCHANGED <<loadErr, mu, op, stops, nextID, replay, spare, shared>>

DeleteClient(p) ==
    /\ pc[p] = "idle"
    /\ CanLock
    /\ \E sid \in IDs, cid \in IDs :
        LET o == Request("DeleteClient", sid, cid)
            f == FindClient(config, sid, cid)
        IN IF f = <<0, 0>>
           THEN /\ Finish(p, o, Result("NotFound", "nil"))
                /\ UNCHANGED <<config, disk, faults>>
           ELSE \E outcome \in Outcomes :
                LET cfg == [config EXCEPT !.Servers[f[1]].Clients =
                                              RemoveAt(@, f[2])]
                    saved == saveConfig(cfg, disk, outcome)
                IN /\ config' = cfg
                   /\ disk' = saved.disk
                   /\ faults' = Faults(outcome)
                   /\ Finish(p, o, Result(saved.err, "nil"))
    /\ UNCHANGED <<loadErr, stops, nextID, replay, spare, shared>>

\* UpdateServer without the lines that put the stored fields back.
UpdatedServer_AsDrafted(draft, old, t) == [draft EXCEPT !.UpdatedAt = t]

\* What UpdateServer stores: the draft, stamped, with the stored keys,
\* client list and creation stamp put back.
UpdatedServer(draft, old, t) ==
    [draft EXCEPT !.UpdatedAt = t,
                  !.PrivateKey = old.PrivateKey,
                  !.PublicKey = old.PublicKey,
                  !.Clients = old.Clients,
                  !.CreatedAt = old.CreatedAt]

UpdateServer(p) ==
    /\ pc[p] = "idle"
    /\ CanLock
    /\ \E draft \in UpdateDrafts :
        LET o == [Request("UpdateServer", draft.ID, 0) EXCEPT !.server = draft]
            i == FindServer(config, draft.ID)
        IN IF i = 0
           THEN /\ Finish(p, o, Result("NotFound", "nil"))
                /\ UNCHANGED <<config, disk, faults>>
           ELSE \E t \in Times, outcome \in Outcomes :
                LET cfg == [config EXCEPT !.Servers[i] =
                                              UpdatedServer(draft, @, t)]
                    saved == saveConfig(cfg, disk, outcome)
                IN /\ config' = cfg
                   /\ disk' = saved.disk
                   /\ faults' = Faults(outcome)
                   /\ Finish(p, o, Result(saved.err, "nil"))
    /\ UNCHANGED <<loadErr, stops, nextID, replay, spare, shared>>

\* UpdateClient without the test of the name.
UpdatedClient_NameAlways(old, u) ==
    [old EXCEPT !.Name = u.Name,
                !.Description = u.Description,
                !.Enabled = u.Enabled]

\* What UpdateClient stores: the name only when one is given, the
\* description and the enabled flag always.
UpdatedClient(old, u) ==
    [old EXCEPT !.Name = IF u.Name # "" THEN u.Name ELSE @,
                !.Description = u.Description,
                !.Enabled = u.Enabled]

UpdateClient(p) ==
    /\ pc[p] = "idle"
    /\ CanLock
    /\ \E sid \in IDs, cid \in IDs, u \in ClientUpdates :
        LET o == [Request("UpdateClient", sid, cid) EXCEPT !.upd = u]
            f == FindClient(config, sid, cid)
        IN IF f = <<0, 0>>
           THEN /\ Finish(p, o, Result("NotFound", "nil"))
                /\ UNCHANGED <<config, disk, faults>>
           ELSE \E outcome \in Outcomes :
                LET cfg == [config EXCEPT !.Servers[f[1]].Clients[f[2]] =
                                              UpdatedClient(@, u)]
                    saved == saveConfig(cfg, disk, outcome)
                IN /\ config' = cfg
                   /\ disk' = saved.disk
                   /\ faults' = Faults(outcome)
                   /\ Finish(p, o,
                             IF saved.err = "nil"
                             THEN Result("nil", cfg.Servers[f[1]].Clients[f[2]])
                             ELSE Result(saved.err, "nil"))
    /\ UNCHANGED <<loadErr, stops, nextID, replay, spare, shared>>

\* The deferred Unlock / RUnlock: the handler returns to its caller.
Return(p) ==
    /\ pc[p] = "done"
    /\ mu' = Unlock(p)
    /\ pc' = [pc EXCEPT ![p] = "idle"]
    /\ op' = [op EXCEPT ![p] = NoOp]
    /\ res' = [res EXCEPT ![p] = NoRes]
    /\ stops' = [stops EXCEPT ![p] = <<>>]
    /\ shared' = shared \ {p}
    /\ UNCHANGED <<config, disk, loadErr, nextID, faults, replay, spare>>

\* The calls of AddClient the model makes: on a server it finds, only
\* while the server has fewer than MaxClients clients and an identifier
\* of IDs is left.
Bounded(o) ==
    LET i == FindServer(config, o.sid)
    IN i # 0 => (Len(config.Servers[i].Clients) < MaxClients /\ nextID < MaxIDs)

Next ==
    \E p \in Procs :
        \/ GetServers(p)
        \/ GetServer(p)
        \/ CreateServer(p)
        \/ DeleteServer(p)
        \/ UpdateServer(p)
        \/ AddClient(p) /\ Bounded(op'[p])
        \/ AddClientAppend(p)
        \/ DeleteClient(p)
        \/ UpdateClient(p)
        \/ Return(p)

-----------------------------------------------------------------------------
(* Two callers, one AddClient each, against the same server.               *)

\* The servers CreateServer makes, and those after one UpdateServer.
OneServer ==
    {NewServer(d, 1, t, t) : d \in ServerDrafts, t \in Times} \cup
    {UpdatedServer(u, NewServer(d, 1, t, t), t) :
        d \in ServerDrafts, u \in {x \in UpdateDrafts : x.ID = 1}, t \in Times}

\* The service holds one server, saved, and nobody is inside.
InitConc ==
    /\ \E server \in OneServer : config = [Servers |-> <<server>>]
    /\ disk = Marshal(config)
    /\ loadErr = FALSE
    /\ mu = [w |-> NoProc, r |-> {}]
    /\ pc = [p \in Procs |-> "idle"]
    /\ op = [p \in Procs |-> NoOp]
    /\ res = [p \in Procs |-> NoRes]
    /\ stops = [p \in Procs |-> <<>>]
    /\ nextID = 1
    /\ faults = MaxFaults
    /\ replay = {1}
    /\ spare = 0
    /\ shared = {}

\* The deferred Unlock of a caller that makes no further call: it keeps
\* what it passed and what it got.
Leave(p) ==
    /\ pc[p] = "done"
    /\ mu' = Unlock(p)
    /\ pc' = [pc EXCEPT ![p] = "left"]
    /\ UNCHANGED <<config, disk, loadErr, op, res, stops, nextID, faults, replay,
                   spare, shared>>

NextConc ==
    \E p \in Procs :
        \/ AddClient(p) /\ op'[p].sid = 1 /\ op'[p].given.AllowedIPs = EmptyStr
        \/ AddClientAppend(p)
        \/ Leave(p)

SpecConc == InitConc /\ [][NextConc]_vars

-----------------------------------------------------------------------------
(* Callers that keep what GetServers handed them.                          *)

\* The deferred RUnlock of a GetServers whose caller keeps the returned
\* slice: the caller makes no further call and may read the slice at any
\* time, without the lock.
Keep(p) ==
    /\ pc[p] = "done"
    /\ op[p].name = "GetServers"
    /\ mu' = Unlock(p)
    /\ pc' = [pc EXCEPT ![p] = "holding"]
    /\ UNCHANGED <<config, disk, loadErr, op, res, stops, nextID, faults, replay,
                   spare, shared>>

NextAlias == Next \/ \E p \in Procs : Keep(p)

SpecAlias == InitSaved /\ [][NextAlias]_vars

-----------------------------------------------------------------------------
(* Clients added and deleted on one server.                                *)

\* Callers add clients to the one server and delete them; a caller may
\* leave after a call and keep what it passed and what it got.
NextReuse ==
    \E p \in Procs :
        \/ AddClient(p) /\ Bounded(op'[p])
        \/ AddClientAppend(p)
        \/ DeleteClient(p)
        \/ Return(p)
        \/ Leave(p)

SpecReuse == InitConc /\ [][NextReuse]_vars

-----------------------------------------------------------------------------
(* A service that is started again on its file.                            *)

\* The process ends while no call is running and NewService runs again on
\* the same data directory: the document is what loadConfig reads.
\* Identifiers already handed out are not handed out again.
Restart ==
    /\ \A p \in Procs : pc[p] = "idle"
    /\ config' = loadConfig(disk).cfg
    /\ loadErr' = loadConfig(disk).err
    /\ spare' \in DecodedSpares(Len(loadConfig(disk).cfg.Servers))
    /\ shared' = {}
    /\ UNCHANGED <<disk, mu, pc, op, res, stops, nextID, faults, replay>>

NextRestart == Next \/ Restart

SpecRestart == InitSaved /\ [][NextRestart]_vars

-----------------------------------------------------------------------------
(* A service started on the file of a server that ran out of host octets.  *)

\* The server after as many AddClient calls with an empty allowed-IP as it
\* takes to leave the given number of octets of the scan unused: client k
\* holds the k-th octet of FirstHost..LastHost that is not the server's
\* own.  The identifiers of that earlier run lie outside IDs.
Filled(server, left) ==
    LET own == HostOctet(server.Address)
        parts == Split(Split(server.Address, "/")[1], ".")
        prefix == Join3(parts[1], parts[2], parts[3])
        n == Cardinality((FirstHost..LastHost) \ own) - left
        octet(k) == IF \E h \in own : FirstHost <= h /\ h <= FirstHost + k - 1
                    THEN FirstHost + k
                    ELSE FirstHost + k - 1
    IN [server EXCEPT !.Clients =
           [k \in 1..n |->
               NewClient([ZeroClient EXCEPT !.Name = "peer",
                                            !.AllowedIPs =
                                                FormatHost(prefix, octet(k))],
                         server, MaxIDs + k, CHOOSE t \in Times : TRUE)]]

\* The gateway and the server on host 2, each with every octet taken and
\* with one octet left.
FullServers ==
    {Filled(NewServer(d, MaxIDs, t, t), left) :
        d \in ServerDrafts, t \in Times, left \in {0, 1}}

\* NewService on the file such a server was saved in; every write succeeds.
InitFull ==
    \E server \in FullServers :
        NewService(Marshal([Servers |-> <<server>>]), 0)

\* Two callers, one AddClient each, against that server.
NextFull ==
    \E p \in Procs :
        \/ AddClient(p) /\ op'[p].sid = MaxIDs
        \/ AddClientAppend(p)
        \/ Leave(p)

SpecFull == InitFull /\ [][NextFull]_vars

Spec == Init /\ [][Next]_vars

SpecSaved == InitSaved /\ [][Next]_vars

SpecCorrupt == InitCorrupt /\ [][Next]_vars

-----------------------------------------------------------------------------
(* What the properties speak of.                                           *)

\* The host address of a CIDR string: what stands before the "/".
HostPart(cidr) == Split(cidr, "/")[1]

\* Whether an address has four dot-separated parts.
FourParts(cidr) == Len(Split(HostPart(cidr), ".")) = 4

\* The A.B.C of an address with four parts, <<>> otherwise.
PrefixOf(cidr) ==
    LET parts == Split(HostPart(cidr), ".")
    IN IF Len(parts) = 4 THEN <<parts[1], parts[2], parts[3]>> ELSE <<>>

\* The octets of FirstHost..LastHost that neither the server nor one of
\* its first n clients holds.
FreeOctets(server, n) ==
    LET held == HostOctet(server.Address) \cup
                UNION {HostOctet(server.Clients[j].AllowedIPs) : j \in 1..n}
    IN (FirstHost..LastHost) \ held

\* Caller p is at the return of an AddClient that appended its client.
Stored(p) ==
    /\ pc[p] = "done"
    /\ op[p].name = "AddClient"
    /\ res[p].err \in {"nil", "PersistenceFailure"}

\* ... and the draft left the allowed-IP empty.
AutoStored(p) == Stored(p) /\ op[p].given.AllowedIPs = EmptyStr

\* The server the call of p names, as the document holds it now.
Target(p) == config.Servers[FindServer(config, op[p].sid)]

\* The client an AddClient has just appended is the last of the list: it
\* differs from the server's host address and from every earlier client's,
\* lies in the server's prefix and has its octet in FirstHost..LastHost
\* when one is free.
FreshAddress(server) ==
    LET n == Len(server.Clients)
        c == server.Clients[n]
    IN /\ HostPart(c.AllowedIPs) # HostPart(server.Address)
       /\ \A j \in 1..(n - 1) :
              HostPart(server.Clients[j].AllowedIPs) # HostPart(c.AllowedIPs)
       /\ PrefixOf(server.Address) # <<>>
       /\ PrefixOf(c.AllowedIPs) = PrefixOf(server.Address)
       /\ FreeOctets(server, n - 1) # {} =>
              \E k \in FirstHost..LastHost : HostOctet(c.AllowedIPs) = {k}

-----------------------------------------------------------------------------
(* C1 *)

\* C1 as stated: for every server, addClient with an empty allowed-IP
\* stores a client whose address differs from the server's own and from
\* every earlier client's, lies in the server's A.B.C prefix and has a host
\* octet in 2..254 whenever one is unused.
C1_AsStated ==
    \A p \in Procs : AutoStored(p) => FreshAddress(Target(p))

\* C1, amended: the same for every server whose address has four
\* dot-separated parts, while the scan finds an octet of 2..254 unused.
C1_FreshAddress ==
    \A p \in Procs :
        (/\ AutoStored(p)
         /\ FourParts(Target(p).Address)
         /\ FreeOctets(Target(p), Len(Target(p).Clients) - 1) # {})
        => FreshAddress(Target(p))

\* An allocated client is appended behind an earlier one on a server that
\* itself sits on a host octet of the scan.
C1_Witness ==
    \E p \in Procs :
        /\ AutoStored(p)
        /\ FourParts(Target(p).Address)
        /\ Len(Target(p).Clients) >= 2
        /\ HostOctet(Target(p).Address) = {2}

-----------------------------------------------------------------------------
(* C2 *)

\* C2 as stated: in every reachable state no two clients of one server
\* hold the same host address.
C2_NoSharedAddress ==
    \A i \in 1..Len(config.Servers) :
        \A j, k \in 1..Len(config.Servers[i].Clients) :
            j # k => HostPart(config.Servers[i].Clients[j].AllowedIPs)
                     # HostPart(config.Servers[i].Clients[k].AllowedIPs)

-----------------------------------------------------------------------------
(* C3 *)

\* Caller p has returned from an AddClient that appended its client.
Added(p) ==
    /\ pc[p] = "left"
    /\ op[p].name = "AddClient"
    /\ res[p].err \in {"nil", "PersistenceFailure"}

\* The allowed-IP of the stored client with the given ID.
StoredAddress(server, cid) ==
    LET j == CHOOSE k \in 1..Len(server.Clients) : server.Clients[k].ID = cid
    IN server.Clients[j].AllowedIPs

\* The two callers' stored clients hold distinct host addresses and
\* distinct host octets.
TwoAddresses(p, q) ==
    LET a == StoredAddress(config.Servers[1], op[p].cid)
        b == StoredAddress(config.Servers[1], op[q].cid)
    IN /\ {op[p].cid, op[q].cid} \subseteq ClientIDs(config.Servers[1])
       /\ HostPart(a) # HostPart(b)
       /\ HostOctet(a) # HostOctet(b)

\* C3 as stated: for any server and any interleaving of two concurrent
\* addClient calls with the allowed-IP unset, the two stored clients
\* receive distinct addresses, never the same host octet.
C3_AsStated ==
    \A p, q \in Procs : (p # q /\ Added(p) /\ Added(q)) => TwoAddresses(p, q)

\* C3, amended: the same for any server whose address has four
\* dot-separated parts and that had two octets of 2..254 unused before the
\* two calls.
C3_TwoAddresses ==
    \A p, q \in Procs :
        (/\ p # q /\ Added(p) /\ Added(q)
         /\ FourParts(config.Servers[1].Address)
         /\ Cardinality(FreeOctets(config.Servers[1],
                                    Len(config.Servers[1].Clients) - 2)) >= 2)
        => TwoAddresses(p, q)

\* Both callers have returned, each with its client stored, on a server
\* with a four-part address.
C3_Witness ==
    /\ \A p \in Procs : Added(p)
    /\ FourParts(config.Servers[1].Address)
    /\ Len(config.Servers[1].Clients) = 2

-----------------------------------------------------------------------------
(* C4 *)

\* Caller p enters a handler in this step and reaches its return.
Runs(p, name) == pc[p] = "idle" /\ pc'[p] = "done" /\ op'[p].name = name

\* C4: for every existing server and every draft carrying its ID,
\* updateServer leaves the stored PrivateKey, PublicKey, CreatedAt and
\* client list as they were before the call, whatever the draft supplies.
C4_UpdateServerPreserves ==
    [][\A p \in Procs :
          (Runs(p, "UpdateServer") /\ FindServer(config, op'[p].sid) # 0) =>
              LET i == FindServer(config, op'[p].sid)
              IN /\ Len(config'.Servers) = Len(config.Servers)
                 /\ config'.Servers[i].ID = config.Servers[i].ID
                 /\ config'.Servers[i].PrivateKey = config.Servers[i].PrivateKey
                 /\ config'.Servers[i].PublicKey = config.Servers[i].PublicKey
                 /\ config'.Servers[i].CreatedAt = config.Servers[i].CreatedAt
                 /\ config'.Servers[i].Clients = config.Servers[i].Clients]_vars

\* An UpdateServer has rewritten a server that has a client, from a draft
\* with other keys, another creation stamp and no client.
C4_Witness ==
    \E p \in Procs :
        /\ pc[p] = "done"
        /\ op[p].name = "UpdateServer"
        /\ res[p].err = "nil"
        /\ Len(Target(p).Clients) >= 1
        /\ op[p].server.PrivateKey # Target(p).PrivateKey
        /\ op[p].server.PublicKey # Target(p).PublicKey
        /\ op[p].server.CreatedAt # Target(p).CreatedAt
        /\ op[p].server.Clients # Target(p).Clients
        /\ op[p].server.Address = Target(p).Address

-----------------------------------------------------------------------------
(* C5 *)

Mutating ==
    {"CreateServer", "UpdateServer", "DeleteServer", "AddClient",
     "DeleteClient", "UpdateClient"}

\* C5: whenever a mutating operation returns success, the backing file
\* holds the in-memory document at the moment of return, and the file was
\* written inside that operation's critical section: only a step of the
\* caller holding the write lock changes the file.
C5_Durable ==
    /\ [](\A p \in Procs :
            (pc[p] = "done" /\ op[p].name \in Mutating /\ res[p].err = "nil")
            => (disk = Marshal(config) /\ mu.w = p))
    /\ [][disk' # disk =>
            \E p \in Procs : /\ mu.w \in {NoProc, p}
                              /\ mu'.w = p
                              /\ pc[p] # "done"
                              /\ pc'[p] = "done"
                              /\ op'[p].name \in Mutating]_vars

\* A mutation returns success after an earlier write had failed.
C5_Witness ==
    \E p \in Procs :
        /\ pc[p] = "done"
        /\ op[p].name \in Mutating
        /\ res[p].err = "nil"
        /\ faults < MaxFaults
        /\ Len(config.Servers) >= 1

-----------------------------------------------------------------------------
(* C6 *)

\* C6 as stated: when the persistence step fails the operation returns an
\* error and the document is as it was before the call, so a reader never
\* finds the in-memory document differing from the one on disk.
C6_AsStated ==
    /\ [][\A p \in Procs :
             (pc[p] # "done" /\ pc'[p] = "done"
              /\ res'[p].err = "PersistenceFailure") => config' = config]_vars
    /\ [](\A p \in Procs :
            (pc[p] = "done" /\ op[p].name \in {"GetServers", "GetServer"})
            => config = loadConfig(disk).cfg)

-----------------------------------------------------------------------------
(* C7 *)

\* C7 as stated: if the backing file exists but does not decode at load
\* time, the service serves no request: no call returns success, the
\* document stays empty and the file is not written.
C7_AsStated ==
    loadErr =>
        /\ \A p \in Procs : res[p].err # "nil"
        /\ config = EmptyConfig
        /\ disk = Corrupt

-----------------------------------------------------------------------------
(* C8 *)

\* C8: deleteServer on an existing enabled server invokes the stop
\* collaborator exactly once, with that server's tag, while the document
\* still lists the server, which it no longer does afterwards; deleteServer
\* on a disabled server or an absent ID, and every other call, never
\* invokes it.
C8_StopOnce ==
    /\ [][\A p \in Procs :
             Runs(p, "DeleteServer") =>
                 LET id == op'[p].sid
                     i == FindServer(config, id)
                 IN IF i # 0 /\ config.Servers[i].Enabled
                    THEN /\ Len(stops'[p]) = 1
                         /\ stops'[p][1].Tag = config.Servers[i].Tag
                         /\ id \in stops'[p][1].Listed
                         /\ id \notin ServerIDs(config')
                    ELSE stops'[p] = <<>>]_vars
    /\ [](\A p \in Procs : op[p].name # "DeleteServer" => stops[p] = <<>>)

\* A DeleteServer has stopped the interface of the server it removed.
C8_Witness ==
    \E p \in Procs :
        /\ pc[p] = "done"
        /\ op[p].name = "DeleteServer"
        /\ res[p].err = "nil"
        /\ Len(stops[p]) = 1
        /\ Len(config.Servers) >= 1

-----------------------------------------------------------------------------
(* C9 *)

\* C9: the server IDs of the document are those obtained by replaying the
\* createServer and deleteServer calls on a set; no server ID appears
\* twice, and no client ID appears twice in one server's list.
C9_Replay ==
    /\ ServerIDs(config) = replay
    /\ Cardinality(ServerIDs(config)) = Len(config.Servers)
    /\ \A i \in 1..Len(config.Servers) :
           Cardinality(ClientIDs(config.Servers[i])) =
               Len(config.Servers[i].Clients)

\* The first server made was deleted and two later ones are listed.
C9_Witness ==
    /\ nextID >= 3
    /\ 1 \notin replay
    /\ Len(config.Servers) = 2

-----------------------------------------------------------------------------
(* C10 *)

\* Whether a call names a server or a client the document does not hold.
IdAbsent(o, cfg) ==
    IF o.name \in {"GetServer", "UpdateServer", "DeleteServer", "AddClient"}
    THEN o.sid \notin ServerIDs(cfg)
    ELSE IF o.name \in {"DeleteClient", "UpdateClient"}
    THEN \/ o.sid \notin ServerIDs(cfg)
         \/ o.cid \notin ClientIDs(cfg.Servers[FindServer(cfg, o.sid)])
    ELSE FALSE

\* C10: every lookup-based operation called with a server ID or client ID
\* the document does not hold returns NotFound and leaves the in-memory
\* document and the backing file as they were.
C10_NotFound ==
    [][\A p \in Procs :
          (pc[p] = "idle" /\ pc'[p] # "idle" /\ IdAbsent(op'[p], config)) =>
              /\ pc'[p] = "done"
              /\ res'[p].err = "NotFound"
              /\ config' = config
              /\ disk' = disk]_vars

\* A DeleteClient names an existing parent that has a client, and a client
\* ID the parent does not hold, while the file is behind the document.
C10_Witness ==
    \E p \in Procs :
        /\ pc[p] = "done"
        /\ op[p].name = "DeleteClient"
        /\ res[p].err = "NotFound"
        /\ op[p].sid \in ServerIDs(config)
        /\ Len(Target(p).Clients) >= 1
        /\ disk # Marshal(config)

-----------------------------------------------------------------------------
(* C11 *)

\* Caller p keeps a slice GetServers returned, and the slice still points
\* into the array of s.config.Servers.
Holds(p) == pc[p] = "holding" /\ p \in shared

\* The slots of p's slice that the document lists.
Slots(p, cfg) ==
    {i \in 1..Len(cfg.Servers) : i <= res[p].val.len}

\* C11 as stated: the value listServers returned is a snapshot: no later
\* mutation changes what the caller reads through it (here: the slots of
\* the value that the document lists before and after the step), and no
\* mutation is about to write the array while a caller may read it.
C11_AsStated ==
    /\ [][\A p \in Procs :
             (Holds(p) /\ p \in shared') =>
                 \A i \in Slots(p, config) \cap Slots(p, config') :
                     config'.Servers[i] = config.Servers[i]]_vars
    /\ [](\A p \in Procs :
            Holds(p) => \A q \in Procs : pc[q] # "append")

-----------------------------------------------------------------------------
(* C12 *)

\* C12: for every existing client, updateClient with an empty name leaves
\* the stored name as it was and with a non-empty name stores that name;
\* the description and the enabled flag are always set to the supplied
\* values; the client returned equals the stored client after the update.
C12_UpdateClient ==
    [][\A p \in Procs :
          (/\ Runs(p, "UpdateClient")
           /\ FindClient(config, op'[p].sid, op'[p].cid) # <<0, 0>>) =>
              LET f == FindClient(config, op'[p].sid, op'[p].cid)
                  old == config.Servers[f[1]].Clients[f[2]]
                  new == config'.Servers[f[1]].Clients[f[2]]
                  u == op'[p].upd
              IN /\ new.Name = IF u.Name = "" THEN old.Name ELSE u.Name
                 /\ new.Description = u.Description
                 /\ new.Enabled = u.Enabled
                 /\ res'[p].err = "nil" => res'[p].val = new]_vars

\* An UpdateClient with an empty name and enabled = false has returned a
\* client that keeps its name.
C12_Witness ==
    \E p \in Procs :
        /\ pc[p] = "done"
        /\ op[p].name = "UpdateClient"
        /\ res[p].err = "nil"
        /\ op[p].upd.Name = ""
        /\ res[p].val.Name # ""
        /\ res[p].val.Description = op[p].upd.Description
        /\ ~res[p].val.Enabled

-----------------------------------------------------------------------------
(* C13 *)

\* The server has a four-part address and no octet of the scan unused.
Exhausted(server) ==
    FourParts(server.Address) /\ FreeOctets(server, Len(server.Clients)) = {}

\* A.B.C.(clientCount + 2)/32 for the server as it is.
FallbackAddress(server) ==
    LET parts == PrefixOf(server.Address)
    IN FormatHost(Join3(parts[1], parts[2], parts[3]), Len(server.Clients) + 2)

-----------------------------------------------------------------------------
(* C14 *)

\* Caller p is between the lock and the deferred unlock of a handler.
Inside(p) == pc[p] \in {"append", "done"}

\* C14: every mutating operation holds the exclusive lock from before its
\* first read of the document until its persistence step has ended: in no
\* reachable state are two mutations inside their critical sections at
\* once, nor a mutation together with a read; a mutation inside holds the
\* write lock, a read inside holds a read lock, and the document and the
\* file change only in a step of the caller that holds the write lock.
C14_Exclusive ==
    /\ [](\A p, q \in Procs :
            (p # q /\ Inside(p) /\ op[p].name \in Mutating) => ~Inside(q))
    /\ [](\A p \in Procs :
            Inside(p) => IF op[p].name \in Mutating
                         THEN mu.w = p /\ mu.r = {}
                         ELSE mu.w = NoProc /\ p \in mu.r)
    /\ [][(config' # config \/ disk' # disk) =>
             \E p \in Procs : /\ mu.w \in {NoProc, p}
                               /\ mu'.w = p
                               /\ pc[p] # "done"
                               /\ op'[p].name \in Mutating]_vars

\* Two reads are inside at once.
C14_Witness ==
    /\ mu.r = Procs
    /\ \A p \in Procs : Inside(p) /\ op[p].name \in {"GetServers", "GetServer"}
    /\ Len(config.Servers) >= 1

-----------------------------------------------------------------------------
(* C15 *)

\* C15: when the key-pair generator (createServer, addClient) or the
\* preshared-key generator (addClient) fails, the operation returns the
\* error and neither the in-memory document nor the backing file is
\* changed: nothing is appended, no identifier is drawn and no write of the
\* file is attempted.
C15_GenerationFailure ==
    [][\A p \in Procs :
          (pc[p] = "idle" /\ pc'[p] # "idle"
           /\ res'[p].err = "GenerationFailure") =>
              /\ pc'[p] = "done"
              /\ op'[p].name \in {"CreateServer", "AddClient"}
              /\ config' = config
              /\ disk' = disk
              /\ faults' = faults
              /\ nextID' = nextID]_vars

\* An AddClient on an existing server has returned the generator's error
\* while the file is behind the document.
C15_Witness ==
    \E p \in Procs :
        /\ pc[p] = "done"
        /\ op[p].name = "AddClient"
        /\ res[p].err = "GenerationFailure"
        /\ op[p].sid \in ServerIDs(config)
        /\ disk # Marshal(config)

-----------------------------------------------------------------------------
(* C16 *)

\* C16: addClient with a non-empty allowed-IP in the draft stores exactly
\* that allowed-IP; addClient with an unset DNS stores the parent server's
\* DNS, and a non-empty draft DNS is stored as given; the stored client
\* always has enabled = true.
C16_AddClientFields ==
    \A p \in Procs :
        Stored(p) =>
            LET server == Target(p)
                c == server.Clients[Len(server.Clients)]
            IN /\ c.ID = op[p].cid
               /\ op[p].given.AllowedIPs # EmptyStr =>
                      c.AllowedIPs = op[p].given.AllowedIPs
               /\ c.DNS = IF op[p].given.DNS = "" THEN server.DNS
                          ELSE op[p].given.DNS
               /\ c.Enabled

\* On a server with a DNS of its own, a client with an explicit allowed-IP
\* and DNS is stored and behind it a client whose draft left the DNS unset.
C16_Witness ==
    \E p \in Procs :
        /\ Stored(p)
        /\ ~op[p].given.Enabled
        /\ op[p].given.DNS = ""
        /\ Target(p).DNS = "9.9.9.9"
        /\ Len(Target(p).Clients) = 2
        /\ Target(p).Clients[1].AllowedIPs = Addr_10_0_0_3_32
        /\ Target(p).Clients[1].DNS = "9.9.9.9"

-----------------------------------------------------------------------------
(* C17 *)

-----------------------------------------------------------------------------
(* C18 *)

\* The elements of a list whose ID is not the given one, in their order.
Without(list, id) ==
    LET Other(x) == x.ID # id
    IN SelectSeq(list, Other)

-----------------------------------------------------------------------------
(* C19 *)

\* The host octet of an address: the number its fourth dot-separated part
\* denotes; none when the address has not four parts or the fourth is not
\* a run of digits.
OctetOf(cidr) ==
    LET parts == Split(HostPart(cidr), ".")
    IN IF /\ Len(parts) = 4
          /\ parts[4] # <<>>
          /\ \A i \in 1..Len(parts[4]) : IsDigit(parts[4][i])
       THEN {ParseDigits(parts[4])}
       ELSE {}

\* The octets of 2..254 that are neither the server's host octet nor the
\* host octet of one of its first n clients.
Unheld(server, n) ==
    {k \in FirstHost..LastHost :
        /\ k \notin OctetOf(server.Address)
        /\ \A j \in 1..n : k \notin OctetOf(server.Clients[j].AllowedIPs)}

\* C19: for a server whose address has four dot-separated octets, the
\* client an addClient with an empty allowed-IP stores has the address
\* A.B.C.k/32, k being the smallest octet of 2..254 that is neither the
\* server's host octet nor the host octet of a client the server had at
\* the call (when there is one); so an octet a deleteClient has freed is
\* handed out again when no smaller one is free.
C19_SmallestFree ==
    \A p \in Procs :
        (AutoStored(p) /\ FourParts(Target(p).Address)) =>
            LET server == Target(p)
                n == Len(server.Clients)
                free == Unheld(server, n - 1)
                abc == PrefixOf(server.Address)
            IN free # {} =>
                   \E k \in free :
                       /\ \A h \in free : k <= h
                       /\ server.Clients[n].AllowedIPs =
                              abc[1] \o <<".">> \o abc[2] \o <<".">> \o abc[3]
                              \o <<".">> \o FormatInt(k) \o <<"/", "3", "2">>

\* On the server on host 2, client 2 (which held octet 3, allocated or
\* explicit) was deleted, and the AddClient that drew identifier 3 has
\* stored its client on octet 3 again.
C19_Witness ==
    \E p, q \in Procs :
        /\ pc[q] = "left"
        /\ op[q].name = "DeleteClient"
        /\ res[q].err = "nil"
        /\ op[q].cid = 2
        /\ AutoStored(p)
        /\ op[p].cid = 3
        /\ Target(p).Address = Addr_10_0_0_2_24
        /\ Len(Target(p).Clients) = 1
        /\ Target(p).Clients[1].AllowedIPs = Addr_10_0_0_3_32

-----------------------------------------------------------------------------
(* C20 *)

Scoped == {"AddClient", "DeleteClient", "UpdateClient", "UpdateServer"}

\* The client with the name, description and enabled flag of another.
WithDetailsOf(c, d) ==
    [c EXCEPT !.Name = d.Name, !.Description = d.Description,
              !.Enabled = d.Enabled]

\* C20: addClient, deleteClient, updateClient and updateServer on server S
\* change no field and no client of any other server and keep the servers
\* in their order; updateClient changes nothing of S but the target
\* client's name, description and enabled flag: its ID, keys, preshared
\* key, allowed-IP, DNS and creation stamp, and every sibling client, stay
\* as they were.
C20_Frame ==
    [][\A p \in Procs :
          (pc'[p] # pc[p] /\ op'[p].name \in Scoped) =>
              /\ Len(config'.Servers) = Len(config.Servers)
              /\ \A i \in 1..Len(config.Servers) :
                     /\ config'.Servers[i].ID = config.Servers[i].ID
                     /\ config.Servers[i].ID # op'[p].sid =>
                            config'.Servers[i] = config.Servers[i]
                     /\ op'[p].name = "UpdateClient" =>
                            LET old == config.Servers[i].Clients
                                new == config'.Servers[i].Clients
                            IN /\ config'.Servers[i] =
                                      [config.Servers[i] EXCEPT !.Clients = new]
                               /\ Len(new) = Len(old)
                               /\ \A j \in 1..Len(old) :
                                      IF old[j].ID = op'[p].cid
                                      THEN WithDetailsOf(new[j], old[j]) = old[j]
                                      ELSE new[j] = old[j]]_vars

\* Of two servers the second has got a client; the first is as it was.
C20_Witness ==
    \E p \in Procs :
        /\ Stored(p)
        /\ res[p].err = "nil"
        /\ Len(config.Servers) = 2
        /\ op[p].sid = config.Servers[2].ID
        /\ Len(config.Servers[2].Clients) = 1
        /\ config.Servers[1].UpdatedAt # 0

====
